---------------------------- MODULE Spec2Model ----------------------------
(***************************************************************************)
(* NetCDF TimeRemapper for ParaView (src/NetCDF_TimeRemapper.py).          *)
(*                                                                         *)
(* The three scripts of the Programmable Filter are the three actions      *)
(* RequestInformation, RequestUpdateExtent and RequestData.  They share    *)
(* the attributes they attach to the long-lived filter object `self`, the  *)
(* pipeline information objects of the input and of the output, and the    *)
(* output data object.                                                     *)
(*                                                                         *)
(* Text.  A string is a sequence of characters.  The characters of the     *)
(* model are the ones the code distinguishes (a blank, '#', 'T', any       *)
(* other character) and two multi-character units that the code never      *)
(* looks into: a calendar date "[-]YYYY-MM-DD" and a clock time            *)
(* "hh:mm:ss", each carrying the numbers its digits spell.  A line's       *)
(* trailing newline is left out: strip() removes it and startswith("#")    *)
(* does not look at it.                                                    *)
(*                                                                         *)
(* Numbers.  custom_times holds Python floats that are whole numbers of    *)
(* seconds far below 2^53, so they are modelled as integers.  Python's     *)
(* None is the empty tuple <<>> and a present value v is <<v>>.            *)
(*                                                                         *)
(* What a script reads from the pipeline is a parameter of its action: the *)
(* lines of time_file and the upstream's TIME_STEPS for                    *)
(* RequestInformation, the output's UPDATE_TIME_STEP for                   *)
(* RequestUpdateExtent, the field data of inputData for the Script.  The   *)
(* Script's `output` is overwritten by ShallowCopy at the start of every   *)
(* run and read by no script, so it is kept with the locals of the run     *)
(* that filled it.  A script that raises stops where it raises: what it    *)
(* assigned before stays.                                                  *)
(***************************************************************************)
EXTENDS Integers, Sequences, FiniteSets, TLC

VARIABLES
    self,      \* the attributes present on the filter object: name -> value
    outInfo,   \* the output information object: key -> value, for the keys it has
    inInfo,    \* the input information object: key -> value, for the keys the scripts set
    stage,     \* the script that ran last ("" before the first)
    raised,    \* the exception that ended it ("" when it completed)
    frame      \* what that script read, its local variables and, for the Script, its output

vars == <<self, outInfo, inInfo, stage, raised, frame>>

-----------------------------------------------------------------------------
(* Bounds of the model *)

\* the longest text file, in lines
MaxLines == 2
\* the largest number of time steps the upstream source reports
MaxSteps == 2
\* the largest number of field data arrays on the input data object
MaxArrays == 2

-----------------------------------------------------------------------------
(* Characters and strings *)

Ch(k) == [k |-> k, a |-> 0, b |-> 0, c |-> 0]
DateCh(y, m, d) == [k |-> "date", a |-> y, b |-> m, c |-> d]
TimeCh(h, m, s) == [k |-> "time", a |-> h, b |-> m, c |-> s]

SP == Ch(" ")
HASH == Ch("#")
TEE == Ch("T")
JUNK == Ch("x")

None == <<>>
Some(v) == <<v>>

\* str.strip(): the string without its leading and trailing whitespace
RECURSIVE LStrip(_)
LStrip(s) == IF s # <<>> /\ Head(s) = SP THEN LStrip(Tail(s)) ELSE s

RECURSIVE RStrip(_)
RStrip(s) ==
    IF s # <<>> /\ s[Len(s)] = SP THEN RStrip(SubSeq(s, 1, Len(s) - 1)) ELSE s

Strip(s) == RStrip(LStrip(s))

\* str.startswith(c) for a one-character prefix
StartsWith(s, c) == s # <<>> /\ Head(s) = c

\* c in s
Contains(s, c) == \E i \in 1..Len(s) : s[i] = c

\* the position of the first c in s (s contains c)
FirstPos(s, c) == CHOOSE i \in 1..Len(s) : s[i] = c /\ \A j \in 1..(i - 1) : s[j] # c

\* s.split(c, 1) of a string that contains c
Split1(s, c) ==
    LET p == FirstPos(s, c)
    IN  <<SubSeq(s, 1, p - 1), SubSeq(s, p + 1, Len(s))>>

-----------------------------------------------------------------------------
(* Durations *)

(***************************************************************************)
(* A whole number of seconds n is held as the mixed-radix numeral <<d, s>> *)
(* with n = 86400 * d + s and 0 <= s < 86400, which names every integer    *)
(* exactly once: the spans the filter is for (thousands of years) do not   *)
(* fit the 32-bit integers of the model checker, while the code's int64    *)
(* and float64 hold them exactly.                                          *)
(***************************************************************************)
SecondsPerDay == 24 * 60 * 60

Secs(d, s) == <<d + ((s - (s % SecondsPerDay)) \div SecondsPerDay), s % SecondsPerDay>>

SecsSub(x, y) == Secs(x[1] - y[1], x[2] - y[2])

SecsLE(x, y) == x[1] < y[1] \/ (x[1] = y[1] /\ x[2] <= y[2])

Zero == <<0, 0>>

-----------------------------------------------------------------------------
(* numpy.datetime64(string) *)

\* C's integer division, which truncates toward zero
CDiv(a, b) == IF a >= 0 THEN a \div b ELSE -((-a) \div b)

is_leapyear(year) == year % 4 = 0 /\ (year % 100 # 0 \/ year % 400 = 0)

days_per_month(year, month) ==
    IF month = 2 THEN (IF is_leapyear(year) THEN 29 ELSE 28)
    ELSE IF month \in {4, 6, 9, 11} THEN 30 ELSE 31

RECURSIVE days_before_month(_, _)
days_before_month(year, month) ==
    IF month <= 1 THEN 0
    ELSE days_before_month(year, month - 1) + days_per_month(year, month - 1)

\* the days from 1970-01-01 to the date, on the proleptic Gregorian calendar with
\* a year 0 (numpy's get_datetimestruct_days)
get_datetimestruct_days(year, month, day) ==
    LET y0 == year - 1970
        d0 == y0 * 365
        leap ==
            IF d0 >= 0
            THEN CDiv(y0 + 1, 4) - CDiv(y0 + 69, 100) + CDiv(y0 + 369, 400)
            ELSE CDiv(y0 - 2, 4) - CDiv(y0 - 30, 100) + CDiv(y0 - 30, 400)
    IN  d0 + leap + days_before_month(year, month) + (day - 1)

ValidDate(ch) ==
    /\ ch.k = "date"
    /\ ch.b \in 1..12
    /\ ch.c \in 1..days_per_month(ch.a, ch.b)

ValidTime(ch) ==
    /\ ch.k = "time"
    /\ ch.a \in 0..23
    /\ ch.b \in 0..59
    /\ ch.c \in 0..59

ParseError == "ValueError: Error parsing datetime string"

\* np.datetime64(s): the instant, in seconds since 1970-01-01T00:00:00, of an ISO 8601
\* string "date", "dateTtime" or "date time"; anything else is a parse error
datetime64(s) ==
    IF Len(s) = 1 /\ ValidDate(s[1])
    THEN [exc |-> "", t |-> Secs(get_datetimestruct_days(s[1].a, s[1].b, s[1].c), 0)]
    ELSE IF Len(s) = 3 /\ ValidDate(s[1]) /\ s[2] \in {TEE, SP} /\ ValidTime(s[3])
    THEN [exc |-> "",
          t |-> Secs(get_datetimestruct_days(s[1].a, s[1].b, s[1].c),
                     s[3].a * 3600 + s[3].b * 60 + s[3].c)]
    ELSE [exc |-> ParseError, t |-> Zero]

-----------------------------------------------------------------------------
(* RequestInformation script *)

NoT == "ValueError: Invalid format, no 'T' separator"
Incomplete == "ValueError: Incomplete date-time string"

\* parse_date(s): the date and the time part of "dateTtime", split at the first 'T'
parse_date(s) ==
    IF ~Contains(s, TEE)
    THEN [exc |-> NoT, date_part |-> <<>>, time_part |-> <<>>]
    ELSE LET parts == Split1(s, TEE)
         IN  IF parts[1] = <<>> \/ parts[2] = <<>>
             THEN [exc |-> Incomplete, date_part |-> parts[1], time_part |-> parts[2]]
             ELSE [exc |-> "", date_part |-> parts[1], time_part |-> parts[2]]


\* lines = [line.strip() for line in f if line.strip() and not line.startswith("#")]
ReadLines(file) ==
    LET kept == SelectSeq(file, LAMBDA line : Strip(line) # <<>> /\ ~StartsWith(line, HASH))
    IN  [i \in 1..Len(kept) |-> Strip(kept[i])]

\* the exception of the first call that raises, "" when none does
RECURSIVE FirstExc(_)
FirstExc(excs) ==
    IF excs = <<>> THEN ""
    ELSE IF Head(excs) # "" THEN Head(excs) ELSE FirstExc(Tail(excs))

SecondsSince == Ch("seconds since ")

\* f"seconds since {ref_date_str} {ref_time_str}"
NewUnits(line) ==
    LET p == parse_date(line)
    IN  <<SecondsSince>> \o p.date_part \o <<SP>> \o p.time_part

\* date + " " + time, for every line
Annotation(lines) ==
    [i \in 1..Len(lines) |->
        LET p == parse_date(lines[i]) IN p.date_part \o <<SP>> \o p.time_part]

\* the reference's instant minus the line's, for every line
CustomTimesReversed(lines) ==
    [i \in 1..Len(lines) |-> SecsSub(datetime64(lines[1]).t, datetime64(lines[i]).t)]

\* float((np.datetime64(line) - ref_date).astype('timedelta64[s]').astype(int)), for every line
CustomTimes(lines) ==
    [i \in 1..Len(lines) |-> SecsSub(datetime64(lines[i]).t, datetime64(lines[1]).t)]

\* the first native value, once for every time step
OrigTimesFirst(steps) == [i \in 1..Len(steps) |-> steps[1]]

\* [inInfo.Get(ts_key, i) for i in range(num_ts)]
OrigTimes(steps) == [i \in 1..Len(steps) |-> steps[i]]

-----------------------------------------------------------------------------
(* Objects with named attributes or keys *)

Has(o, k) == k \in DOMAIN o

Set(o, k, v) == [x \in (DOMAIN o) \cup {k} |-> IF x = k THEN v ELSE o[x]]

Del(o, k) ==
    IF (DOMAIN o) \ {k} = {} THEN <<>> ELSE [x \in (DOMAIN o) \ {k} |-> o[x]]

\* vtkInformation::Append(key, value)
InfoAppend(o, k, v) == Set(o, k, IF Has(o, k) THEN Append(o[k], v) ELSE <<v>>)

RECURSIVE AppendAll(_, _, _)
AppendAll(o, k, vs) ==
    IF vs = <<>> THEN o ELSE AppendAll(InfoAppend(o, k, Head(vs)), k, Tail(vs))

\* the tail of the script: the custom times and their range put on the output
Publish(o, custom_times) ==
    LET cleared == Del(Del(o, "TIME_STEPS"), "TIME_RANGE")
        stepped == AppendAll(cleared, "TIME_STEPS", custom_times)
    IN  IF custom_times # <<>>
        THEN Set(stepped, "TIME_RANGE", <<custom_times[1], custom_times[Len(custom_times)]>>)
        ELSE stepped

Empty == "RuntimeError: TXT file empty!"
Mismatch == "ValueError: Number of dates in file doesn't match time steps in data"

\* what the script leaves on self and on the output information, and how it ends
InformationPass(me, out, file, steps) ==
    LET s0 == Del(Del(me, "custom_times"), "orig_times")
        lines == ReadLines(file)
        fail(s, e) == [self |-> s, outInfo |-> out, raised |-> e, lines |-> lines]
    IN  IF lines = <<>> THEN fail(s0, Empty)
        ELSE IF datetime64(lines[1]).exc # "" THEN fail(s0, datetime64(lines[1]).exc)
        ELSE IF parse_date(lines[1]).exc # "" THEN fail(s0, parse_date(lines[1]).exc)
        ELSE
        LET s1 == Set(s0, "new_units", NewUnits(lines[1]))
            annExc == FirstExc([i \in 1..Len(lines) |-> parse_date(lines[i]).exc])
        IN  IF annExc # "" THEN fail(s1, annExc)
        ELSE
        LET s2 == Set(s1, "custom_times_annotation", Annotation(lines))
            dtExc == FirstExc([i \in 1..Len(lines) |-> datetime64(lines[i]).exc])
        IN  IF dtExc # "" THEN fail(s2, dtExc)
        ELSE
        LET custom_times == CustomTimes(lines)
            num_ts == Len(steps)
        IN  IF num_ts # Len(custom_times) THEN fail(s2, Mismatch)
        ELSE
        LET s3 == Set(Set(Set(s2, "custom_times", custom_times),
                          "orig_times", OrigTimes(steps)),
                      "initialized", TRUE)
        IN  [self |-> s3, outInfo |-> Publish(out, s3.custom_times),
             raised |-> "", lines |-> lines]

RequestInformation(file, steps) ==
    LET r == InformationPass(self, outInfo, file, steps)
    IN  /\ self' = r.self
        /\ outInfo' = r.outInfo
        /\ stage' = "RequestInformation"
        /\ raised' = r.raised
        /\ frame' = [time_file |-> file, TIME_STEPS |-> steps, lines |-> r.lines]
        /\ UNCHANGED inInfo

-----------------------------------------------------------------------------
(* RequestUpdateExtent script *)

AttributeError == "AttributeError"
IndexError == "IndexError"

\* the position, counted from 0, of the last element of list equal to x
IndexLast(list, x) ==
    IF x # None /\ \E i \in 1..Len(list) : list[i] = x[1]
    THEN (CHOOSE i \in 1..Len(list) :
              list[i] = x[1] /\ \A j \in (i + 1)..Len(list) : list[j] # x[1]) - 1
    ELSE -1

\* the position, counted from 0, of the first element of list equal to x;
\* -1 where list.index(x) raises ValueError
Index(list, x) ==
    IF x # None /\ \E i \in 1..Len(list) : list[i] = x[1]
    THEN (CHOOSE i \in 1..Len(list) :
              list[i] = x[1] /\ \A j \in 1..(i - 1) : list[j] # x[1]) - 1
    ELSE -1

\* a lookup that falls back to the last time step
ResolveLast(list, x) ==
    IF x # None /\ \E i \in 1..Len(list) : list[i] = x[1]
    THEN (CHOOSE i \in 1..Len(list) :
              list[i] = x[1] /\ \A j \in 1..(i - 1) : list[j] # x[1]) - 1
    ELSE Len(list) - 1

\* try: idx = list.index(x); except ValueError: idx = 0
Resolve(list, x) == IF Index(list, x) >= 0 THEN Index(list, x) ELSE 0

\* list[idx], idx counted from 0
At(list, idx) == list[idx + 1]

ExtentPass(me, inp, requested_time) ==
    LET fail(i, e, n) == [self |-> me, inInfo |-> i, raised |-> e, idx |-> n]
    IN  IF requested_time # None /\ ~Has(me, "custom_times")
        THEN fail(inp, AttributeError, -1)
        ELSE
        LET idx == IF requested_time # None THEN Resolve(me.custom_times, requested_time)
                   ELSE 0
            removed == IF Has(inp, "UPDATE_TIME_STEP") THEN Del(inp, "UPDATE_TIME_STEP")
                       ELSE inp
        IN  IF ~Has(me, "orig_times") THEN fail(removed, AttributeError, idx)
            ELSE IF idx >= Len(me.orig_times) THEN fail(removed, IndexError, idx)
            ELSE [self |-> Set(me, "current_requested_custom_time", requested_time),
                  inInfo |-> Set(removed, "UPDATE_TIME_STEP", At(me.orig_times, idx)),
                  raised |-> "", idx |-> idx]

RequestUpdateExtent(requested_time) ==
    LET r == ExtentPass(self, inInfo, requested_time)
    IN  /\ self' = r.self
        /\ inInfo' = r.inInfo
        /\ stage' = "RequestUpdateExtent"
        /\ raised' = r.raised
        /\ frame' = [requested_time |-> requested_time, idx |-> r.idx]
        /\ UNCHANGED outInfo


-----------------------------------------------------------------------------
(* Script (RequestData) *)

(***************************************************************************)
(* An array name is a sequence of letters, each a lower-case character and *)
(* whether it is written in upper case.  A field data array is its name    *)
(* (None for an array without one) and its values.                         *)
(***************************************************************************)
Lo(cs) == [i \in 1..Len(cs) |-> [c |-> cs[i], up |-> FALSE]]
Up(cs) == [i \in 1..Len(cs) |-> [c |-> cs[i], up |-> TRUE]]

\* str.lower()
Lower(name) == [i \in 1..Len(name) |-> [c |-> name[i].c, up |-> FALSE]]

\* sub in s, for strings of letters
IsIn(sub, s) ==
    \E i \in 0..(Len(s) - Len(sub)) : SubSeq(s, i + 1, i + Len(sub)) = sub

time == Lo(<<"t", "i", "m", "e">>)
units == Lo(<<"u", "n", "i", "t", "s">>)
time_units == time \o Lo(<<"_">>) \o units
current_date == Lo(<<"c", "u", "r", "r", "e", "n", "t", "_", "d", "a", "t", "e">>)

Array(name, values) == [name |-> name, values |-> values]

\* the test without lower()
IsTimeUnitsCaseSensitive(name) ==
    name # None /\ IsIn(time, name[1]) /\ IsIn(units, name[1])

\* name is not None and ("time" in name.lower() and "units" in name.lower())
IsTimeUnits(name) ==
    name # None /\ IsIn(time, Lower(name[1])) /\ IsIn(units, Lower(name[1]))

\* the names collected by the loop over fieldData.GetArrayName(i)
ArraysToRemove(fieldData) ==
    LET hits == SelectSeq(fieldData, LAMBDA arr : IsTimeUnits(arr.name))
    IN  [i \in 1..Len(hits) |-> hits[i].name]

\* vtkFieldData::RemoveArray(name): the first array of that name goes
RemoveArray(fieldData, name) ==
    IF \E i \in 1..Len(fieldData) : fieldData[i].name = name
    THEN LET p == CHOOSE i \in 1..Len(fieldData) :
                      fieldData[i].name = name
                      /\ \A j \in 1..(i - 1) : fieldData[j].name # name
         IN  SubSeq(fieldData, 1, p - 1) \o SubSeq(fieldData, p + 1, Len(fieldData))
    ELSE fieldData

RECURSIVE RemoveAll(_, _)
RemoveAll(fieldData, names) ==
    IF names = <<>> THEN fieldData
    ELSE RemoveAll(RemoveArray(fieldData, Head(names)), Tail(names))

\* vtkFieldData::AddArray(array): in the place of the first array of its name, else last
AddArray(fieldData, arr) ==
    IF \E i \in 1..Len(fieldData) : fieldData[i].name = arr.name
    THEN LET p == CHOOSE i \in 1..Len(fieldData) :
                      fieldData[i].name = arr.name
                      /\ \A j \in 1..(i - 1) : fieldData[j].name # arr.name
         IN  [fieldData EXCEPT ![p] = arr]
    ELSE Append(fieldData, arr)

\* the field data once the arrays named like time units are removed
FixUnits(fieldData) == RemoveAll(fieldData, ArraysToRemove(fieldData))

\* the first custom time, whatever RequestUpdateExtent saved
CurrentCustomTimeFirst(me) == Some(me.custom_times[1])

\* the value saved by RequestUpdateExtent, else the first custom time
CurrentCustomTime(me) ==
    IF Has(me, "current_requested_custom_time")
    THEN me.current_requested_custom_time
    ELSE Some(me.custom_times[1])

DataPass(me, inputFieldData) ==
    LET copied == inputFieldData
        fixed == FixUnits(copied)
        fail(fd, e, n) == [output |-> fd, raised |-> e, idx |-> n]
    IN  IF ~Has(me, "new_units") THEN fail(fixed, AttributeError, -1)
        ELSE
        LET withUnits == AddArray(fixed, Array(Some(time_units), <<me.new_units>>))
        IN  IF ~Has(me, "custom_times") THEN fail(withUnits, AttributeError, -1)
        ELSE IF ~Has(me, "current_requested_custom_time") /\ me.custom_times = <<>>
        THEN fail(withUnits, IndexError, -1)
        ELSE
        LET current_custom_time == CurrentCustomTime(me)
            idx == Resolve(me.custom_times, current_custom_time)
        IN  IF ~Has(me, "custom_times_annotation") THEN fail(withUnits, AttributeError, idx)
            ELSE IF idx >= Len(me.custom_times_annotation)
            THEN fail(withUnits, IndexError, idx)
            ELSE [output |-> AddArray(withUnits,
                                      Array(Some(current_date),
                                            <<At(me.custom_times_annotation, idx)>>)),
                  raised |-> "", idx |-> idx]

RequestData(inputFieldData) ==
    LET r == DataPass(self, inputFieldData)
    IN  /\ stage' = "RequestData"
        /\ raised' = r.raised
        /\ frame' = [inputData |-> inputFieldData, output |-> r.output, idx |-> r.idx]
        /\ UNCHANGED <<self, outInfo, inInfo>>

-----------------------------------------------------------------------------
(* Inputs *)

RECURSIVE SeqsUpTo(_, _)
SeqsUpTo(S, n) ==
    IF n = 0 THEN {<<>>}
    ELSE LET shorter == SeqsUpTo(S, n - 1)
         IN  shorter \cup {Append(q, x) : q \in shorter, x \in S}

Midnight == TimeCh(0, 0, 0)
LastSecond == TimeCh(23, 59, 59)

Entry(date, clock) == <<date, TEE, clock>>

BCE100 == Entry(DateCh(-100, 1, 1), Midnight)
CE1 == Entry(DateCh(1, 1, 1), Midnight)
DateOnly == <<DateCh(2020, 1, 1)>>
Comment == <<HASH, JUNK>>

\* the time files the sessions are built from: none, one, sorted, unsorted and
\* repeated entries, a file with a comment, a blank line and padded entries, and
\* files with a malformed first or later line
SessionFiles ==
    { <<>>,
      <<Comment, <<SP>> \o BCE100 \o <<SP>>, <<SP>>>>,
      <<BCE100, CE1>>,
      <<CE1, BCE100>>,
      <<BCE100, BCE100>>,
      <<BCE100, DateOnly>>,
      <<DateOnly>>,
      <<BCE100, CE1, BCE100>> }

\* the lines of the time files a first pass is tried on
Dates ==
    { DateCh(-4000, 1, 1), DateCh(-100, 1, 1), DateCh(0, 2, 29), DateCh(1, 1, 1),
      DateCh(1969, 12, 31), DateCh(2000, 3, 1) }

Entries == {Entry(d, c) : d \in Dates, c \in {Midnight, LastSecond}}

TextLines ==
    Entries \cup
    { <<>>, <<SP>>, Comment, <<SP>> \o Comment, <<SP>> \o CE1 \o <<SP>>, DateOnly,
      <<DateCh(2020, 1, 1), SP, Midnight>>, <<JUNK, TEE, Midnight>>, <<TEE, Midnight>> }

TextFiles == SeqsUpTo(TextLines, MaxLines)

\* the time steps of the upstream source: the first n of its native values
NativeValue(i) == 30 * i

NativeSteps == {[i \in 1..n |-> NativeValue(i)] : n \in 1..MaxSteps}

\* the times a downstream consumer asks for: none, the differences of the session
\* entries' instants, and one that no session lists
Requests ==
    LET instants == {datetime64(BCE100).t, datetime64(CE1).t}
    IN  {None} \cup {Some(SecsSub(x, y)) : x \in instants, y \in instants}
               \cup {Some(Secs(0, 1))}

\* the field data of the input data object
Values == <<<<JUNK>>>>

InputArrays ==
    { Array(Some(time_units), Values),
      Array(Some(Up(<<"t", "i", "m", "e">>) \o Lo(<<":">>) \o Up(<<"u", "n", "i", "t", "s">>)),
            Values),
      Array(Some(time), Values),
      Array(None, Values) }

InputFieldData == SeqsUpTo(InputArrays, MaxArrays)

SessionFieldData == {<<>>, <<Array(Some(time_units), Values)>>}

-----------------------------------------------------------------------------
(* The filter *)

Init ==
    /\ self = <<>>
    /\ outInfo = <<>>
    /\ inInfo = <<>>
    /\ stage = ""
    /\ raised = ""
    /\ frame = <<>>

Information(files) ==
    \E file \in files, steps \in NativeSteps : RequestInformation(file, steps)

UpdateExtent == \E requested_time \in Requests : RequestUpdateExtent(requested_time)

Data(fieldData) == \E inputFieldData \in fieldData : RequestData(inputFieldData)

\* the scripts, run in any order and any number of times
Next == Information(SessionFiles) \/ UpdateExtent \/ Data(SessionFieldData)

Spec == Init /\ [][Next]_vars

\* the first pass after construction, on any text file
NextInfo == stage = "" /\ Information(TextFiles)

SpecInfo == Init /\ [][NextInfo]_vars

\* any passes and requests, and then the Script on any input data
NextData ==
    \/ stage # "RequestData" /\ Information(SessionFiles)
    \/ stage # "RequestData" /\ UpdateExtent
    \/ stage # "RequestData" /\ Data(InputFieldData)

SpecData == Init /\ [][NextData]_vars

-----------------------------------------------------------------------------
(* Vocabulary of the properties *)

INFO == "RequestInformation"
EXTENT == "RequestUpdateExtent"
DATA == "RequestData"

\* a session is built: the custom timeline is on the filter object
Built == Has(self, "custom_times")

\* the last script was a metadata-discovery pass, and it completed
PassCompleted == stage = INFO /\ raised = ""

Elements(list) == {list[i] : i \in 1..Len(list)}

\* the requested value is absent or is no element of the custom timeline
Missed(list, x) == x = None \/ x[1] \notin Elements(list)

\* the least position, counted from 0, that holds the value at position i
FirstOf(list, i) == (CHOOSE j \in 1..i : list[j] = list[i] /\ \A k \in 1..(j - 1) : list[k] # list[i]) - 1

\* the values of the output arrays called name
ValuesOf(fieldData, name) ==
    {fieldData[i].values : i \in {j \in 1..Len(fieldData) : fieldData[j].name = Some(name)}}

\* the usable lines of a file as the specification words them: every line
\* stripped, without the blank ones and the ones beginning with '#'
Usable(file) ==
    LET stripped == [i \in 1..Len(file) |-> Strip(file[i])]
    IN  SelectSeq(stripped, LAMBDA l : l # <<>> /\ Head(l) # HASH)

\* a line of the fixed layout: a calendar date, 'T', a clock time
WellFormed(line) ==
    Len(line) = 3 /\ ValidDate(line[1]) /\ line[2] = TEE /\ ValidTime(line[3])

\* the day number of a civil date on the proleptic Gregorian calendar with a year
\* 0, counted in 400-year eras from 0000-03-01 (floor division throughout)
CivilDays(y, m, d) ==
    LET yy == IF m <= 2 THEN y - 1 ELSE y
        era == (yy - (yy % 400)) \div 400
        yoe == yy % 400
        mp == IF m > 2 THEN m - 3 ELSE m + 9
        doy == ((153 * mp + 2) \div 5) + d - 1
        doe == yoe * 365 + (yoe \div 4) - (yoe \div 100) + doy
    IN  era * 146097 + doe

\* the instant of a well-formed line, in seconds since 0000-03-01T00:00:00
CivilInstant(line) ==
    Secs(CivilDays(line[1].a, line[1].b, line[1].c),
         line[3].a * 3600 + line[3].b * 60 + line[3].c)

\* the order of two well-formed lines in time, read off their fields
Fields(line) ==
    <<line[1].a, line[1].b, line[1].c, line[3].a, line[3].b, line[3].c>>

RECURSIVE LexLE(_, _)
LexLE(x, y) ==
    IF x = <<>> THEN TRUE
    ELSE Head(x) < Head(y) \/ (Head(x) = Head(y) /\ LexLE(Tail(x), Tail(y)))

Chronological(lines) ==
    \A i \in 1..(Len(lines) - 1) : LexLE(Fields(lines[i]), Fields(lines[i + 1]))

NonDecreasing(list) ==
    \A i \in 1..(Len(list) - 1) : SecsLE(list[i], list[i + 1])

-----------------------------------------------------------------------------
(* C1 *)

\* C1, as claimed: whenever RequestUpdateExtent or the Script looks up the value
\* CustomTimeline[i] of a built session, it resolves exactly i, for entry lists
\* with repeated or unsorted timestamps too.
C1_RoundTripExact ==
    /\ (stage = EXTENT /\ raised = "" /\ frame.requested_time # None)
        => \A i \in 1..Len(self.custom_times) :
               frame.requested_time = Some(self.custom_times[i]) => frame.idx = i - 1
    /\ (stage = DATA /\ raised = "" /\ Has(self, "current_requested_custom_time"))
        => \A i \in 1..Len(self.custom_times) :
               self.current_requested_custom_time = Some(self.custom_times[i])
                   => frame.idx = i - 1

\* C1, amended: whenever RequestUpdateExtent or the Script looks up the value
\* CustomTimeline[i] of a built session, it resolves the least index j with
\* CustomTimeline[j] = CustomTimeline[i]: exactly i when no earlier entry has the
\* same timestamp (sorted or not), and the first of the equal entries otherwise.
C1_RoundTripFirst ==
    /\ (stage = EXTENT /\ frame.requested_time # None /\ Built)
        => \A i \in 1..Len(self.custom_times) :
               frame.requested_time = Some(self.custom_times[i])
                   => raised = "" /\ frame.idx = FirstOf(self.custom_times, i)
    /\ (stage = DATA /\ Built /\ Has(self, "current_requested_custom_time"))
        => \A i \in 1..Len(self.custom_times) :
               self.current_requested_custom_time = Some(self.custom_times[i])
                   => raised = "" /\ frame.idx = FirstOf(self.custom_times, i)

\* the second entry of a session whose timestamps run backwards is looked up
C1_Witness ==
    /\ stage = EXTENT /\ raised = "" /\ Built
    /\ Len(self.custom_times) = 2
    /\ ~SecsLE(self.custom_times[1], self.custom_times[2])
    /\ frame.requested_time = Some(self.custom_times[2])
    /\ frame.idx = 1

-----------------------------------------------------------------------------
(* C2 *)

SessionFields == {"custom_times", "orig_times", "custom_times_annotation", "new_units"}

Session(me) == [k \in (DOMAIN me) \cap SessionFields |-> me[k]]

\* C2, as claimed: a metadata-discovery pass that raises publishes no partial
\* session: the session fields are all as before the pass or all absent, and the
\* time steps and the time range on the output are as before.
C2_NoPartialSession ==
    [][(stage' = INFO /\ raised' # "")
        => /\ outInfo' = outInfo
           /\ \/ Session(self') = Session(self)
              \/ (DOMAIN self') \cap SessionFields = {}]_vars

-----------------------------------------------------------------------------
(* C3 *)

\* C3: on a built session a requested time that is absent or is no element of
\* the custom timeline never raises; RequestUpdateExtent resolves index 0,
\* requests OriginalTimeline[0] upstream and records the requested value, and the
\* Script resolves a recorded value of that kind to index 0 and emits
\* current_date = AnnotationList[0].
C3_MissFallsBackToFirst ==
    /\ (stage = EXTENT /\ Built /\ Missed(self.custom_times, frame.requested_time))
        => /\ raised = ""
           /\ frame.idx = 0
           /\ Has(inInfo, "UPDATE_TIME_STEP")
           /\ inInfo.UPDATE_TIME_STEP = self.orig_times[1]
           /\ self.current_requested_custom_time = frame.requested_time
    /\ (stage = DATA /\ Built /\ Has(self, "current_requested_custom_time")
            /\ Missed(self.custom_times, self.current_requested_custom_time))
        => /\ raised = ""
           /\ frame.idx = 0
           /\ ValuesOf(frame.output, current_date) = {<<self.custom_times_annotation[1]>>}

\* the Script has run on a two-step session whose recorded request no step lists
C3_Witness ==
    /\ stage = DATA /\ raised = "" /\ Built
    /\ Len(self.custom_times) = 2
    /\ self.custom_times_annotation[1] # self.custom_times_annotation[2]
    /\ Has(self, "current_requested_custom_time")
    /\ self.current_requested_custom_time = Some(Secs(0, 1))
    /\ Has(inInfo, "UPDATE_TIME_STEP")
    /\ inInfo.UPDATE_TIME_STEP = self.orig_times[1]
    /\ frame.idx = 0

-----------------------------------------------------------------------------
(* C4 *)

\* C4: a pass completes only when the file has as many usable entries as the
\* upstream has time steps, and a well-formed file with another count raises the
\* mismatch error; in every state with a built session custom_times, orig_times
\* and custom_times_annotation have that one length, and after a completed pass
\* it is the number of usable entries and orig_times is the upstream's list.
C4_LengthsAgree ==
    /\ Built =>
        /\ Has(self, "orig_times") /\ Has(self, "custom_times_annotation")
        /\ Len(self.orig_times) = Len(self.custom_times)
        /\ Len(self.custom_times_annotation) = Len(self.custom_times)
    /\ PassCompleted =>
        /\ Built
        /\ Len(Usable(frame.time_file)) = Len(frame.TIME_STEPS)
        /\ Len(self.custom_times) = Len(Usable(frame.time_file))
        /\ self.orig_times = frame.TIME_STEPS
    /\ (stage = INFO /\ Usable(frame.time_file) # <<>>
            /\ (\A i \in 1..Len(Usable(frame.time_file)) : WellFormed(Usable(frame.time_file)[i]))
            /\ Len(Usable(frame.time_file)) # Len(frame.TIME_STEPS))
        => raised = Mismatch /\ ~Built

\* a second pass has completed, on a file of two entries, after a request
C4_Witness ==
    /\ PassCompleted
    /\ Has(self, "current_requested_custom_time")
    /\ Len(self.custom_times) = 2
    /\ self.orig_times = <<NativeValue(1), NativeValue(2)>>

-----------------------------------------------------------------------------
(* C5 *)

Least(list) == CHOOSE x \in Elements(list) : \A y \in Elements(list) : SecsLE(x, y)
Greatest(list) == CHOOSE x \in Elements(list) : \A y \in Elements(list) : SecsLE(y, x)

\* C5, as claimed: after a completed pass the output lists exactly the custom
\* times, in file order, and its time range is [min, max] of them, sorted or not.
C5_RangeIsMinMax ==
    PassCompleted =>
        /\ outInfo.TIME_STEPS = self.custom_times
        /\ outInfo.TIME_RANGE = <<Least(self.custom_times), Greatest(self.custom_times)>>

-----------------------------------------------------------------------------
(* C6 *)

\* C6, as claimed: the entries of a pass are exactly the stripped lines of the
\* file that are not empty and do not begin with '#', in file order, and the pass
\* raises the empty-input error exactly when there is no such line.
C6_EntriesAreUsableLines ==
    stage = INFO =>
        /\ frame.lines = Usable(frame.time_file)
        /\ (raised = Empty <=> Usable(frame.time_file) = <<>>)

-----------------------------------------------------------------------------
(* C7 *)

\* the name contains "time" and "units", whatever the case of its letters
NamedLikeTimeUnits(arr) ==
    /\ arr.name # None
    /\ \E i \in 1..Len(arr.name[1]) : \A k \in 1..Len(time) :
           i + k - 1 <= Len(arr.name[1]) /\ arr.name[1][i + k - 1].c = time[k].c
    /\ \E i \in 1..Len(arr.name[1]) : \A k \in 1..Len(units) :
           i + k - 1 <= Len(arr.name[1]) /\ arr.name[1][i + k - 1].c = units[k].c

\* C7: after every run of the Script on a built session, whatever arrays the
\* input carried, it completed and exactly one array of the output has a name
\* that contains 'time' and 'units' in any case: the array time_units, whose one
\* value is "seconds since " and the date, a blank and the time of the session's
\* first entry.
C7_OneTimeUnits ==
    (stage = DATA /\ Built) =>
        /\ raised = ""
        /\ Cardinality({i \in 1..Len(frame.output) : NamedLikeTimeUnits(frame.output[i])}) = 1
        /\ \A i \in 1..Len(frame.output) :
               NamedLikeTimeUnits(frame.output[i])
                   => frame.output[i] =
                        Array(Some(time_units),
                              <<<<SecondsSince>> \o self.custom_times_annotation[1]>>)

\* the input carried two arrays named like time units, one of them in upper case
C7_Witness ==
    /\ stage = DATA /\ raised = "" /\ Built
    /\ Len(frame.inputData) = 2
    /\ \A i \in 1..2 : NamedLikeTimeUnits(frame.inputData[i])
    /\ \E i \in 1..2 : frame.inputData[i].name # Some(time_units)
    /\ Len(frame.output) = 2

-----------------------------------------------------------------------------
(* C8 *)

\* C8, as claimed: after a completed pass the filter object holds a freshly built
\* session and nothing of an earlier one: its session is what a pass on a new
\* filter object leaves for the same file and upstream steps, and no requested
\* custom time of an earlier build is recorded.
C8_RebuiltFromScratch ==
    PassCompleted =>
        /\ Has(self, "current_requested_custom_time")
               => self.current_requested_custom_time = None
        /\ Del(self, "current_requested_custom_time")
               = InformationPass(<<>>, <<>>, frame.time_file, frame.TIME_STEPS).self

-----------------------------------------------------------------------------
(* C9 *)

\* C9: a file of well-formed entries, years <= 0 included, whose count matches
\* the upstream's is never rejected, and after a completed pass CustomTimeline[i]
\* is the difference in whole seconds of entry i's and the first entry's instants
\* on the proleptic Gregorian calendar; so CustomTimeline[0] = 0, entries in
\* chronological order give a non-decreasing timeline, and the entries
\* -0100-01-01T00:00:00, 0001-01-01T00:00:00 give 36890 days for the second.
C9_SignedSecondsSinceFirst ==
    /\ (stage = INFO /\ frame.lines # <<>>
            /\ (\A i \in 1..Len(frame.lines) : WellFormed(frame.lines[i]))
            /\ Len(frame.lines) = Len(frame.TIME_STEPS))
        => raised = ""
    /\ PassCompleted =>
        /\ \A i \in 1..Len(frame.lines) : WellFormed(frame.lines[i])
        /\ Len(self.custom_times) = Len(frame.lines)
        /\ \A i \in 1..Len(frame.lines) :
               self.custom_times[i] =
                   SecsSub(CivilInstant(frame.lines[i]), CivilInstant(frame.lines[1]))
        /\ self.custom_times[1] = Zero
        /\ Chronological(frame.lines) => NonDecreasing(self.custom_times)
        /\ frame.lines = <<BCE100, CE1>> => self.custom_times[2] = <<36890, 0>>

\* a pass has completed on a year before the common era followed by the year 1
C9_Witness ==
    /\ PassCompleted
    /\ frame.lines = <<BCE100, CE1>>
    /\ self.custom_times = <<Zero, <<36890, 0>>>>

-----------------------------------------------------------------------------
(* C10 *)

\* C10: when the Script runs right after a completed RequestUpdateExtent, it
\* completes and resolves the index RequestUpdateExtent resolved: the current_date
\* it emits is AnnotationList[i] for the i whose OriginalTimeline[i] is the time
\* requested upstream.
C10_SameIndexInACycle ==
    [][(stage = EXTENT /\ raised = "" /\ stage' = DATA)
        => /\ raised' = ""
           /\ frame'.idx = frame.idx
           /\ ValuesOf(frame'.output, current_date)
                  = {<<At(self.custom_times_annotation, frame.idx)>>}
           /\ inInfo'.UPDATE_TIME_STEP = At(self.orig_times, frame.idx)]_vars

\* the Script has emitted the second step's date, the second native time being
\* the one requested upstream
C10_Witness ==
    /\ stage = DATA /\ raised = "" /\ Built
    /\ Len(self.custom_times) = 2
    /\ Has(self, "current_requested_custom_time")
    /\ self.current_requested_custom_time = Some(self.custom_times[2])
    /\ frame.idx = 1
    /\ Has(inInfo, "UPDATE_TIME_STEP")
    /\ inInfo.UPDATE_TIME_STEP = self.orig_times[2]
    /\ ValuesOf(frame.output, current_date) = {<<self.custom_times_annotation[2]>>}

=============================================================================
